---- MODULE Spec2Model ----
(***************************************************************************)
(* Model of the Unicorn HAT HD driver (src/lib.rs): the pixel buffer, the  *)
(* SPI frame written by display() in the "hardware" build, and the text    *)
(* rendering of the "fake-hardware" build.  One driver, one caller thread. *)
(*                                                                         *)
(* The crate is built with one of two cargo features.  Spec is the         *)
(* "hardware" build; SpecAny is either build.  The "fake-hardware" build   *)
(* declares leds as a flat array of BUFFER_SIZE entries while the shared   *)
(* pixel operations address it as leds[y][x]; the model keeps both as the  *)
(* source writes them, and an operation that addresses a cell leds does    *)
(* not have ends the run (phase "panicked") without reading or writing.    *)
(***************************************************************************)
EXTENDS Integers, Sequences, FiniteSets, TLC

\* ---------------------------------------------------------------- constants
LED_SIZE == 16
BUFFER_SIZE == 256 * 3
BLACK == [r |-> 0, g |-> 0, b |-> 0]
\* the command byte 0x72 of display()
CMD == 114
\* the clock rate and mode passed to Spi::new
CLOCK_HZ == 9000000
MODE == "Mode0"

\* ------------------------------------------------------------------- bounds
\* how many calls the caller makes on the driver once it is constructed
MaxCalls == 3

\* ------------------------------------------------------------------- inputs
\* coordinates the caller passes: the first two indexes of a row or column
\* and the first index past the end
Coords == {0, 1, LED_SIZE}
\* colours the caller passes; the channels of a colour differ pairwise
Colours == {[r |-> 1, g |-> 2, b |-> 3], [r |-> 10, g |-> 20, b |-> 30]}
Buses == {"Spi0"}
SlaveSelects == {"Ss0"}
Features == {"hardware", "fake-hardware"}

VARIABLES
    feature,    \* the cargo feature the crate is built with
    phase,      \* "init" (no driver yet), "ready", "noDriver" (new returned Err), "panicked"
    spi,        \* the Spi handle the driver owns, <<>> when it owns none
    leds,       \* the field leds of UnicornHatHd, <<>> while no driver exists
    last,       \* the last call made and what it returned
    opens,      \* every Spi::new call made so far, with its outcome
    writes,     \* every Spi::write attempted so far, in order
    console,    \* what each fake-hardware display() printed, in order
    nCalls      \* number of calls on the driver that returned

vars == <<feature, phase, spi, leds, last, opens, writes, console, nCalls>>

\* ------------------------------------------------------------------ helpers
Call(op, x, y, c, res, ret) ==
    [op |-> op, x |-> x, y |-> y, c |-> c, res |-> res, ret |-> ret]

\* leds has the nested type [[RGB8; LED_SIZE]; LED_SIZE]
IsRows(l) == DOMAIN l = 0 .. (LED_SIZE - 1)

\* the place expression leds[y][x] denotes a cell
HasCell(l, x, y) == IsRows(l) /\ y \in DOMAIN l /\ x \in DOMAIN l[y]

\* [[v; LED_SIZE]; LED_SIZE]
Filled(v) == [y \in 0 .. (LED_SIZE - 1) |-> [x \in 0 .. (LED_SIZE - 1) |-> v]]

\* [v; BUFFER_SIZE]
FlatFilled(v) == [i \in 0 .. (BUFFER_SIZE - 1) |-> v]

RGB8_new(r, g, b) == [r |-> r, g |-> g, b |-> b]

\* ------------------------------------------------------------- construction
\* leds as UnicornHatHd::new builds it
NewLeds(f) ==
    IF f = "hardware" THEN Filled(RGB8_new(0, 0, 0)) ELSE FlatFilled(BLACK)

\* the Spi::new calls one call of new makes; openable is whether the bus opens
NewOpens(f, bus, ss, openable) ==
    IF f = "hardware"
    THEN << [bus |-> bus, ss |-> ss, clock |-> CLOCK_HZ, mode |-> MODE, ok |-> openable] >>
    ELSE << >>

\* UnicornHatHd::new(bus, slave_select); onErr is what becomes of an Err:
\* "noDriver" when it is returned, "panicked" when it is unwrapped
NewStep(op, bus, ss, openable, onErr) ==
    /\ phase = "init"
    /\ opens' = opens \o NewOpens(feature, bus, ss, openable)
    /\ IF feature = "hardware" /\ ~openable
       THEN /\ phase' = onErr
            /\ last' = Call(op, 0, 0, BLACK, IF onErr = "panicked" THEN "panic" ELSE "err", BLACK)
            /\ UNCHANGED <<spi, leds>>
       ELSE /\ phase' = "ready"
            /\ last' = Call(op, 0, 0, BLACK, "ok", BLACK)
            /\ leds' = NewLeds(feature)
            /\ spi' = IF feature = "hardware"
                      THEN [bus |-> bus, ss |-> ss, clock |-> CLOCK_HZ, mode |-> MODE]
                      ELSE <<>>
    /\ UNCHANGED <<feature, writes, console, nCalls>>

new ==
    \E bus \in Buses, ss \in SlaveSelects, openable \in BOOLEAN :
        NewStep("new", bus, ss, openable, "noDriver")

\* default that hands the Err of new on instead of unwrapping it
default_recoverable ==
    \E openable \in BOOLEAN : NewStep("default", "Spi0", "Ss0", openable, "noDriver")

\* Default::default(): new(Bus::Spi0, SlaveSelect::Ss0).unwrap()
default ==
    \E openable \in BOOLEAN : NewStep("default", "Spi0", "Ss0", openable, "panicked")

\* ---------------------------------------------------------------- pixel ops
\* set_pixel with the two indexes exchanged: self.leds[x_coord][y_coord] = ...
SetCellSwapped(l, x, y, c) == [l EXCEPT ![x][y] = RGB8_new(c.r, c.g, c.b)]

\* self.leds[y_coord][x_coord] = RGB8::new(c.r, c.g, c.b)
SetCell(l, x, y, c) == [l EXCEPT ![y][x] = RGB8_new(c.r, c.g, c.b)]

\* self.leds[y_coord][x_coord]
GetCell(l, x, y) == l[y][x]

\* [[BLACK; LED_SIZE]; LED_SIZE]
ClearedLeds == Filled(BLACK)

\* set_pixel that clamps its coordinates to the last row and column
set_pixel_clamped ==
    \E x \in Coords, y \in Coords, c \in Colours :
        LET cx == IF x < LED_SIZE THEN x ELSE LED_SIZE - 1
            cy == IF y < LED_SIZE THEN y ELSE LED_SIZE - 1
        IN /\ phase = "ready"
           /\ nCalls < MaxCalls
           /\ IsRows(leds)
           /\ leds' = SetCell(leds, cx, cy, c)
           /\ nCalls' = nCalls + 1
           /\ last' = Call("set_pixel", x, y, c, "ok", BLACK)
           /\ UNCHANGED <<feature, phase, spi, opens, writes, console>>

set_pixel ==
    \E x \in Coords, y \in Coords, c \in Colours :
        /\ phase = "ready"
        /\ nCalls < MaxCalls
        /\ IF HasCell(leds, x, y)
           THEN /\ leds' = SetCell(leds, x, y, c)
                /\ nCalls' = nCalls + 1
                /\ last' = Call("set_pixel", x, y, c, "ok", BLACK)
                /\ UNCHANGED phase
           ELSE /\ phase' = "panicked"
                /\ last' = Call("set_pixel", x, y, c, "panic", BLACK)
                /\ UNCHANGED <<leds, nCalls>>
        /\ UNCHANGED <<feature, spi, opens, writes, console>>

get_pixel ==
    \E x \in Coords, y \in Coords :
        /\ phase = "ready"
        /\ IF HasCell(leds, x, y)
           THEN /\ last' = Call("get_pixel", x, y, BLACK, "ok", GetCell(leds, x, y))
                /\ UNCHANGED phase
           ELSE /\ phase' = "panicked"
                /\ last' = Call("get_pixel", x, y, BLACK, "panic", BLACK)
        /\ UNCHANGED <<feature, spi, leds, opens, writes, console, nCalls>>

\* clear_pixels that resets the first row only
clear_first_row ==
    /\ phase = "ready"
    /\ nCalls < MaxCalls
    /\ nCalls' = nCalls + 1
    /\ leds' = [leds EXCEPT ![0] = [x \in 0 .. (LED_SIZE - 1) |-> BLACK]]
    /\ last' = Call("clear_pixels", 0, 0, BLACK, "ok", BLACK)
    /\ UNCHANGED <<feature, phase, spi, opens, writes, console>>

\* clear_pixels that also sends the cleared buffer to the device
clear_and_transmit ==
    /\ phase = "ready"
    /\ nCalls < MaxCalls
    /\ nCalls' = nCalls + 1
    /\ leds' = ClearedLeds
    /\ writes' = writes \o << [call |-> nCalls + 1, data |-> <<CMD>>, ok |-> TRUE] >>
    /\ last' = Call("clear_pixels", 0, 0, BLACK, "ok", BLACK)
    /\ UNCHANGED <<feature, phase, spi, opens, console>>

clear_pixels ==
    /\ phase = "ready"
    /\ leds' = ClearedLeds
    /\ last' = Call("clear_pixels", 0, 0, BLACK, "ok", BLACK)
    /\ UNCHANGED <<feature, phase, spi, opens, writes, console, nCalls>>

\* ------------------------------------------------------------------ display
\* the loop body: three stores into res, each followed by i += 1; a store at
\* an index past the end of res panics
Body(st, rgb) ==
    IF st.i + 2 >= BUFFER_SIZE
    THEN [st EXCEPT !.panic = TRUE]
    ELSE [res |-> [st.res EXCEPT ![st.i] = rgb.r, ![st.i + 1] = rgb.g, ![st.i + 2] = rgb.b],
          i |-> st.i + 3,
          panic |-> FALSE]

\* the loop over r.iter() for one row r, from column x on
RECURSIVE RowLoop(_, _, _)
RowLoop(st, r, x) ==
    IF st.panic \/ x = LED_SIZE THEN st ELSE RowLoop(Body(st, r[x]), r, x + 1)

\* the loop over self.leds.iter().flat_map(|r| r.iter()), from row y on
RECURSIVE FlatMapLoop(_, _, _)
FlatMapLoop(st, l, y) ==
    IF st.panic \/ y = LED_SIZE THEN st ELSE FlatMapLoop(RowLoop(st, l[y], 0), l, y + 1)

\* let mut res: [u8; BUFFER_SIZE] = [0; BUFFER_SIZE]; let mut i = 0;
ResInit == [res |-> [i \in 0 .. (BUFFER_SIZE - 1) |-> 0], i |-> 0, panic |-> FALSE]

\* the array res when the loop of display() ends
Res(l) == FlatMapLoop(ResInit, l, 0).res

Write(call, data, ok) == [call |-> call, data |-> data, ok |-> ok]

\* the frame of a loop that walks leds column by column
FrameColumnMajor(l) ==
    LET t == [x \in 0 .. (LED_SIZE - 1) |-> [y \in 0 .. (LED_SIZE - 1) |-> l[y][x]]]
        res == Res(t)
    IN [k \in 1 .. BUFFER_SIZE |-> res[k - 1]]

\* the bytes of res in the order spi.write(&res) sends them
Frame(l) == LET res == Res(l) IN [k \in 1 .. BUFFER_SIZE |-> res[k - 1]]

\* display that sends the frame without the command byte before it
DisplayWritesNoCommand(l, call, busOk) ==
    << [call |-> call, data |-> Frame(l), ok |-> busOk[1]] >>

\* the bus writes one hardware display() attempts; busOk[k] tells whether the
\* k-th write of the call succeeds
DisplayWrites(l, call, busOk) ==
    IF ~busOk[1]
    THEN << Write(call, <<CMD>>, FALSE) >>
    ELSE << Write(call, <<CMD>>, TRUE), Write(call, Frame(l), busOk[2]) >>

\* display that drops the result of the frame write
DisplayResultCommandOnly(busOk) == IF busOk[1] THEN "ok" ELSE "err"

\* what hardware display() returns
DisplayResult(busOk) == IF busOk[1] /\ busOk[2] THEN "ok" ELSE "err"

\* display that clears the buffer once the frame is sent
display_then_clear ==
    \E busOk \in [1 .. 2 -> BOOLEAN] :
        /\ phase = "ready"
        /\ feature = "hardware"
        /\ nCalls < MaxCalls
        /\ nCalls' = nCalls + 1
        /\ writes' = writes \o DisplayWrites(leds, nCalls + 1, busOk)
        /\ last' = Call("display", 0, 0, BLACK, DisplayResult(busOk), BLACK)
        /\ leds' = IF busOk[1] /\ busOk[2] THEN ClearedLeds ELSE leds
        /\ UNCHANGED <<feature, phase, spi, opens, console>>

display_hardware ==
    \E busOk \in [1 .. 2 -> BOOLEAN] :
        /\ phase = "ready"
        /\ feature = "hardware"
        /\ nCalls < MaxCalls
        /\ nCalls' = nCalls + 1
        /\ writes' = writes \o DisplayWrites(leds, nCalls + 1, busOk)
        /\ last' = Call("display", 0, 0, BLACK, DisplayResult(busOk), BLACK)
        /\ UNCHANGED <<feature, phase, spi, leds, opens, console>>

\* RGB(pixel.r, pixel.g, pixel.b).paint("*")
Paint(pixel) == [glyph |-> "*", fg |-> RGB8_new(pixel.r, pixel.g, pixel.b)]

RowHasCells(l, y) == \A x \in 0 .. (LED_SIZE - 1) : HasCell(l, x, y)

\* the vector line of row y
Line(l, y) == [k \in 1 .. LED_SIZE |-> Paint(GetCell(l, k - 1, y))]

\* the lines printed from row y on; printing stops at the first row with a
\* get_pixel that has no cell to read
RECURSIVE LinesFrom(_, _)
LinesFrom(l, y) ==
    IF y = LED_SIZE THEN <<>>
    ELSE IF RowHasCells(l, y) THEN <<Line(l, y)>> \o LinesFrom(l, y + 1)
    ELSE <<>>

display_fake ==
    /\ phase = "ready"
    /\ feature = "fake-hardware"
    /\ nCalls < MaxCalls
    /\ LET lines == LinesFrom(leds, 0)
           done == Len(lines) = LED_SIZE
       IN /\ console' = Append(console, [call |-> nCalls + 1,
                                         header |-> "Unicorn HAT HD:",
                                         lines |-> lines])
          /\ phase' = IF done THEN "ready" ELSE "panicked"
          /\ nCalls' = IF done THEN nCalls + 1 ELSE nCalls
          /\ last' = Call("display", 0, 0, BLACK, IF done THEN "ok" ELSE "panic", BLACK)
    /\ UNCHANGED <<feature, spi, leds, opens, writes>>

\* ------------------------------------------------------------ specification
InitOf(fs) ==
    /\ feature \in fs
    /\ phase = "init"
    /\ spi = <<>>
    /\ leds = <<>>
    /\ last = Call("none", 0, 0, BLACK, "ok", BLACK)
    /\ opens = <<>>
    /\ writes = <<>>
    /\ console = <<>>
    /\ nCalls = 0

\* the "hardware" build
Init == InitOf({"hardware"})

Next ==
    \/ new
    \/ default
    \/ set_pixel
    \/ get_pixel
    \/ clear_pixels
    \/ display_hardware

Spec == Init /\ [][Next]_vars

\* either build
InitAny == InitOf(Features)

NextAny ==
    \/ new
    \/ default
    \/ set_pixel
    \/ get_pixel
    \/ clear_pixels
    \/ display_hardware
    \/ display_fake

SpecAny == InitAny /\ [][NextAny]_vars

\* ------------------------------------------------------------------ properties
Cells == 0 .. (LED_SIZE - 1)

InRange(x, y) == x \in Cells /\ y \in Cells

\* leds is a grid of LED_SIZE rows of LED_SIZE cells
IsGrid(l) == IsRows(l) /\ \A y \in Cells : DOMAIN l[y] = Cells

\* a call was made in this step
Stepped == nCalls' # nCalls \/ phase' # phase

\* index, in a written frame, of the first byte of cell (x, y)
Offset(x, y) == 3 * (LED_SIZE * y + x) + 1

\* the bus writes this step attempted
Added == SubSeq(writes', Len(writes) + 1, Len(writes'))

\* the log of bus writes only grows
Kept == Len(writes') >= Len(writes) /\ SubSeq(writes', 1, Len(writes)) = writes

IsFrame(w) == Len(w.data) = BUFFER_SIZE

NonBlackFrame(w) == IsFrame(w) /\ \E k \in 1 .. BUFFER_SIZE : w.data[k] # 0

OnlyCell10 == [Filled(BLACK) EXCEPT ![0][1] = [r |-> 10, g |-> 20, b |-> 30]]

\* C2: the data write of a successful hardware display() is 768 bytes, the
\* bytes at offsets 3*(16*y + x), +1, +2 being the r, g, b channels of cell
\* (x, y) at the time of the call; with only cell (1, 0) set to (10, 20, 30)
\* offsets 3, 4, 5 hold 10, 20, 30 and every other byte is 0.
C2_FrameRowMajor ==
    [][(Stepped /\ last'.op = "display" /\ last'.res = "ok") =>
        LET data == writes'[Len(writes')].data IN
        /\ Len(data) = 768
        /\ \A y \in Cells, x \in Cells :
              /\ data[Offset(x, y)] = leds[y][x].r
              /\ data[Offset(x, y) + 1] = leds[y][x].g
              /\ data[Offset(x, y) + 2] = leds[y][x].b
        /\ leds = OnlyCell10 =>
              data = [k \in 1 .. 768 |->
                        IF k = 4 THEN 10 ELSE IF k = 5 THEN 20 ELSE IF k = 6 THEN 30 ELSE 0]
    ]_vars

\* a successful display() of the grid with only cell (1, 0) set
C2_Witness ==
    /\ last.op = "display" /\ last.res = "ok"
    /\ leds = OnlyCell10
    /\ LET data == writes[Len(writes)].data IN
       /\ data[4] = 10 /\ data[5] = 20 /\ data[6] = 30
       /\ data[3 * LED_SIZE + 1] = 0

\* C3: a hardware display() none of whose bus writes fails issues exactly two
\* writes, the byte 0x72 and then one 768-byte frame; and in the log of bus
\* writes every frame directly follows a successful 0x72 write of the same call.
C3_CommandThenFrame ==
    /\ [](\A i \in 1 .. Len(writes) :
            IsFrame(writes[i]) =>
               /\ i > 1
               /\ writes[i - 1].data = <<114>>
               /\ writes[i - 1].ok
               /\ writes[i - 1].call = writes[i].call)
    /\ [][(Stepped /\ last'.op = "display" /\ \A i \in 1 .. Len(Added) : Added[i].ok) =>
            /\ Kept
            /\ Len(Added) = 2
            /\ Added[1].data = <<114>>
            /\ Len(Added[2].data) = 768
            /\ Added[1].call = Added[2].call
       ]_vars

\* two display() calls went through, each a 0x72 write and a frame
C3_Witness ==
    /\ Len(writes) = 4
    /\ \A i \in 1 .. 4 : writes[i].ok
    /\ writes[1].data = <<CMD>> /\ IsFrame(writes[2])
    /\ writes[3].data = <<CMD>> /\ NonBlackFrame(writes[4])

\* C4: a hardware display() attempts the 0x72 write once; when that fails it
\* returns an error and attempts no frame write; when it succeeds the frame
\* write is attempted once, and display() returns an error if it fails; Ok
\* is returned only when both writes succeeded.  Nothing already written is
\* taken back, the buffer is as it was and the driver stays usable.
C4_WriteFailureAborts ==
    [][(Stepped /\ last'.op = "display") =>
        /\ Kept
        /\ Len(Added) \in {1, 2}
        /\ Added[1].data = <<114>>
        /\ ~Added[1].ok => (Len(Added) = 1 /\ last'.res = "err")
        /\ Added[1].ok =>
              /\ Len(Added) = 2
              /\ IsFrame(Added[2])
              /\ ~Added[2].ok => last'.res = "err"
        /\ last'.res \in {"ok", "err"}
        /\ last'.res = "ok" <=> \A i \in 1 .. Len(Added) : Added[i].ok
        /\ leds' = leds
        /\ phase' = "ready"
    ]_vars

\* one display() failed on its 0x72 write, the next on its frame write
C4_Witness ==
    /\ last.op = "display" /\ last.res = "err"
    /\ Len(writes) = 3
    /\ writes[1].data = <<CMD>> /\ ~writes[1].ok
    /\ writes[2].data = <<CMD>> /\ writes[2].ok
    /\ IsFrame(writes[3]) /\ ~writes[3].ok

\* C5: after clear_pixels() every cell of the grid is black.
C5_ClearIsBlack ==
    last.op = "clear_pixels" =>
        /\ last.res = "ok"
        /\ IsGrid(leds)
        /\ \A y \in Cells, x \in Cells : GetCell(leds, x, y) = BLACK

\* clear_pixels() ran on a buffer whose non-black content had been displayed
C5_Witness ==
    /\ last.op = "clear_pixels"
    /\ nCalls = 3
    /\ Len(writes) = 2 /\ writes[2].call = 2 /\ NonBlackFrame(writes[2])

\* C6: the bus is opened once per construction and never again.  When it
\* cannot be opened, new returns an error and no driver, and default panics;
\* when it can be opened both return a driver that owns the opened bus.
C6_ConstructionFailure ==
    /\ Len(opens) <= 1
    /\ phase = "init" => (opens = <<>> /\ leds = <<>>)
    /\ phase # "init" =>
          /\ Len(opens) = 1
          /\ opens[1].bus = "Spi0" /\ opens[1].ss = "Ss0"
          /\ opens[1].clock = 9000000 /\ opens[1].mode = "Mode0"
          /\ ~opens[1].ok =>
                /\ last.op \in {"new", "default"}
                /\ last.op = "new" => (last.res = "err" /\ phase = "noDriver")
                /\ last.op = "default" => (last.res = "panic" /\ phase = "panicked")
                /\ leds = <<>> /\ spi = <<>>
                /\ nCalls = 0 /\ writes = <<>>
          /\ opens[1].ok =>
                /\ phase \in {"ready", "panicked"}
                /\ IsGrid(leds)
                /\ spi = [bus |-> "Spi0", ss |-> "Ss0", clock |-> 9000000, mode |-> "Mode0"]
                /\ last.op \in {"new", "default"} => (last.res = "ok" /\ phase = "ready")

\* default construction panicked on a bus that could not be opened
C6_Witness ==
    /\ last.op = "default" /\ last.res = "panic"
    /\ Len(opens) = 1 /\ ~opens[1].ok

FramesOf(ws, call) == {ws[i].data : i \in {j \in 1 .. Len(ws) : ws[j].call = call /\ IsFrame(ws[j])}}

C9_OutOfRangePanics ==
    [][Stepped =>
        /\ (last'.op \in {"set_pixel", "get_pixel"} /\ ~InRange(last'.x, last'.y)) =>
              /\ last'.res = "panic"
              /\ phase' = "panicked"
              /\ last'.ret = BLACK
              /\ leds' = leds
              /\ writes' = writes
        /\ phase # "panicked"
    ]_vars

\* set_pixel(16, 0, c) panicked and cell (0, 1) does not hold c
C9_Witness ==
    /\ last.op = "set_pixel" /\ last.res = "panic"
    /\ last.x = LED_SIZE /\ last.y = 0
    /\ phase = "panicked"
    /\ leds[1][0] # last.c
    /\ \E y \in Cells, x \in Cells : leds[y][x] # BLACK

\* C10: once new or default has returned a driver, in either build, leds is a
\* grid of 16 rows of 16 cells, all black right after construction, and it
\* stays a grid of that size.
C10_GridInitialised ==
    /\ phase = "ready" => IsGrid(leds)
    /\ (last.op \in {"new", "default"} /\ last.res = "ok") =>
          \A y \in Cells, x \in Cells : HasCell(leds, x, y) /\ GetCell(leds, x, y) = BLACK
====
